---- MODULE Spec2Model ----
(***************************************************************************)
(* The invoice generator: _build_items_table and generate_invoice of      *)
(* invoice_generator.py, with the line items its callers hand over.       *)
(*                                                                         *)
(* Lengths are integers in units of 1/127 pt: 1 pt = 127 units and        *)
(* 1 mm = 72/25.4 pt = 360 units, so every length of the program          *)
(* (multiples of 0.25 mm and of 1 pt) is exact.  No comparison of the     *)
(* program is between equal lengths (row heights are whole points, page   *)
(* heights whole millimetres), so floating-point rounding decides nothing.*)
(*                                                                         *)
(* calculate_totals, compute_item_amount and convert_to_words of utils.py  *)
(* are operators over exact amounts (units of 10^-7 rupee, thousandths of  *)
(* a rupee), each applied by the one action of its own specification.      *)
(*                                                                         *)
(* ai_autofill of utils.py is an operator over the key and the answer of   *)
(* the extraction service; app.py is the session state and the last run of *)
(* its script, one action for each interaction that starts a run.          *)
(***************************************************************************)
EXTENDS Integers, Sequences, FiniteSets, TLC

VARIABLES
    args,            \* the function of utils.py being called and its arguments
    ret,             \* what that call returned, its status "running" before
    other,           \* the locals of a second, suspended call of generate_invoice
    session_state,   \* st.session_state of app.py
    script,          \* the last run of app.py's script: where it ended, what it passed on
    data,            \* the invoice data handed to generate_invoice, items apart
    exc,             \* the exception generate_invoice ended with, "" if none
    items,           \* data["items"]: the line items handed to generate_invoice
    pc,              \* position inside generate_invoice
    groups,          \* _build_items_table's groups, as far as the loop has come
    table_data,      \* rows of the table built by _build_items_table
    page1_tbl,       \* chunks[0] of the first split
    leftover,        \* the remainder still to split
    remaining_tbls,  \* the continuation chunks
    total_pages,     \* total_pages = 1 + len(remaining_tbls)
    page_num,        \* page_num
    cur_bot_y,       \* y at the bottom of the last table chunk
    drawn,           \* number of continuation chunks drawn so far
    pages            \* the canvas: one sequence of draw operations per page

\* the variables outside the running call of generate_invoice
outside == <<args, ret, other, session_state, script>>

vars == <<outside, data, exc, items, pc, groups, table_data, page1_tbl, leftover, remaining_tbls,
          total_pages, page_num, cur_bot_y, drawn, pages>>

----------------------------------------------------------------------------
(* Bounds of the model *)

\* longest list of freely mixed line items
MaxItems == 3
\* longest run of one-line items of one group (enough for three table pages)
MaxRun == 63
\* number of text lines of a long description (a row of about half a page)
MidLines == 31
\* number of text lines of a description taller than a whole page
TallLines == 61

----------------------------------------------------------------------------
(* Units and page geometry *)

PT == 127
MM == 360

\* W, H = A4: 210 mm x 297 mm
H == 297 * MM

FOOTER_H == 16 * MM
MIN_GAP == 4 * MM
\* a reserve that is less than the totals block and the stamp take
TotalsReserveTooSmall == 40 * MM

TOTALS_H == 62 * MM

\* _draw_billing_info: sep_y = height - 115 * mm
sep_y == H - 115 * MM

page1_avail == sep_y - 2 * MM - FOOTER_H - MIN_GAP
cont_top == H - 14 * MM - 3 * MM
cont_avail == cont_top - FOOTER_H - MIN_GAP

\* _draw_continuation_header returns H - bar_h - 3 * mm
continuation_top_y == H - 14 * MM - 3 * MM

\* _draw_totals / _draw_payment_stamp: row_h = 6.5 * mm
row_h == 13 * (MM \div 2)

----------------------------------------------------------------------------
(* Line items *)

Dates == {"27 Jan", "28 Jan"}
\* app.py's CATEGORIES (two of them)
Categories == {"Food", "Service"}
MealTypes == {"Lunch"}

\* A line item.  A field the dict does not carry is "" (item.get(k, "")).
\* lines is the number of text lines of the description.
\* The rows of app.py's editor and of ai_autofill carry "category" and no
\* "meal_type"; generate_invoice's docstring names "meal_type".
AppItems ==
    { [date |-> d, category |-> c, meal_type |-> "", lines |-> n] :
        d \in Dates, c \in Categories, n \in {1, MidLines} }

ApiItems ==
    { [date |-> d, category |-> "", meal_type |-> m, lines |-> n] :
        d \in Dates, m \in MealTypes, n \in {1, MidLines} }

TallItem == [date |-> "27 Jan", category |-> "", meal_type |-> "Lunch", lines |-> TallLines]

ItemKinds == AppItems \cup ApiItems \cup {TallItem}

RunItemA == [date |-> "27 Jan", category |-> "", meal_type |-> "Lunch", lines |-> 1]
RunItemB == [date |-> "27 Jan", category |-> "", meal_type |-> "Dinner", lines |-> 1]

MixedLists == UNION { [1..n -> ItemKinds] : n \in 0..MaxItems }

\* n one-line items of one group, then at most one item of another group
RunLists ==
    { [i \in 1..(n + m) |-> IF i <= n THEN RunItemA ELSE RunItemB] :
        n \in 1..MaxRun, m \in 0..1 }

InputLists == MixedLists \cup RunLists

----------------------------------------------------------------------------
(* The invoice data, items apart *)

\* d.get(k, default) of a dict
Get(d, k, default) == IF k \in DOMAIN d THEN d[k] ELSE default

\* the business names typed into the form
Names == {"Spice Garden", ""}

\* logo_path: None (here ""), the path of an image file, the path of a file
\* that c.drawImage cannot read
LogoPaths == {"", "logo.png", "broken.png"}

\* the files c.drawImage fails on
Unreadable == {"broken.png"}

\* invoice_data of app.py, "Generate Invoice": the name goes under
\* "business_name"
AppData(business_name, logo_path) ==
    [business_name |-> business_name, logo_path |-> logo_path]

\* the data of generate_invoice's docstring: the name under "restaurant_name"
DocData(restaurant_name, logo_path) ==
    [restaurant_name |-> restaurant_name, logo_path |-> logo_path]

DataKinds ==
    { AppData(n, l) : n \in Names, l \in LogoPaths }
    \cup { DocData(n, l) : n \in Names, l \in LogoPaths }

\* "".join(w[0].upper() for w in name.split()[:2])
Initials(name) ==
    CASE name = "Spice Garden" -> "SG"
      [] name = "R" -> "R"
      [] OTHER -> ""

----------------------------------------------------------------------------
(* _build_items_table *)

\* key = (str(item.get("date", "")), str(item.get("meal_type", "")))
GroupKey(item) == <<item.date, item.meal_type>>

\* grouping of adjacent items only: a key that differs from the last group's
\* key starts a new group
AppendToLastGroup(grps, key, i) ==
    IF Len(grps) > 0 /\ grps[Len(grps)].key = key
    THEN [grps EXCEPT ![Len(grps)].members = Append(@, i)]
    ELSE Append(grps, [key |-> key, members |-> <<i>>])

\* groups.setdefault(key, []).append(item), groups an OrderedDict: a known
\* key keeps its position and gets the item appended, a new key goes last.
\* Members are the positions of the items in the input list.
SetDefaultAppend(grps, key, i) ==
    IF \E g \in 1..Len(grps) : grps[g].key = key
    THEN [g \in 1..Len(grps) |->
            IF grps[g].key = key
            THEN [grps[g] EXCEPT !.members = Append(@, i)]
            ELSE grps[g]]
    ELSE Append(grps, [key |-> key, members |-> <<i>>])

\* the number of items the grouping loop has taken: every item taken is a
\* member of exactly one group
Grouped(grps) ==
    Cardinality(UNION { { grps[g].members[k] : k \in 1..Len(grps[g].members) } :
                        g \in 1..Len(grps) })

\* meal_type.upper()
Upper(s) ==
    CASE s = "Lunch" -> "LUNCH"
      [] s = "Dinner" -> "DINNER"
      [] s = "Food" -> "FOOD"
      [] s = "Service" -> "SERVICE"
      [] OTHER -> s

\* label_parts: the upper-cased meal type, then the date, each only if not empty
LabelParts(date_str, meal_type) ==
    (IF meal_type # "" THEN <<Upper(meal_type)>> ELSE <<>>)
    \o (IF date_str # "" THEN <<date_str>> ELSE <<>>)

\* What a numeric field of an item holds: a number or a numeric string
\* ("num"), a string that is no number ("text"), '' ("empty"), None ("none").
\* A field the item does not carry is the default 0 of item.get(k, 0).
FieldKinds == {"num", "text", "empty", "none"}

\* float(v or 0): a falsy value becomes 0 before the conversion
FloatOrZero(v) == IF v = "text" THEN "ValueError" ELSE ""

\* float(v): ValueError on a string that is no number, TypeError on None
Float(v) ==
    CASE v = "num" -> ""
      [] v = "none" -> "TypeError"
      [] OTHER -> "ValueError"

\* the exception of building one data row: qty, then unit_price, then amount
RowError(item) ==
    IF FloatOrZero(Get(item, "qty", "num")) # ""
    THEN FloatOrZero(Get(item, "qty", "num"))
    ELSE IF Float(Get(item, "unit_price", "num")) # ""
    THEN Float(Get(item, "unit_price", "num"))
    ELSE Float(Get(item, "amount", "num"))

\* the items in the order the rows are built: group after group
RECURSIVE BuildOrder(_)
BuildOrder(grps) ==
    IF Len(grps) = 0 THEN <<>>
    ELSE grps[1].members \o BuildOrder(Tail(grps))

\* the exception of the first row that cannot be built, "" if all can
FirstError(its, grps) ==
    LET order == BuildOrder(grps)
        bad == { k \in 1..Len(order) : RowError(its[order[k]]) # "" }
    IN  IF bad = {} THEN ""
        ELSE RowError(its[order[CHOOSE k \in bad : \A j \in bad : k <= j]])

HeaderRow == [kind |-> "header", label |-> <<>>, date |-> "DATE", src |-> 0, lines |-> 1]

SectionRow(key) ==
    [kind |-> "section", label |-> LabelParts(key[1], key[2]), date |-> "",
     src |-> 0, lines |-> 1]

\* a data row with first_in_group never cleared: the date on every row
DataRowDateOnEveryRow(its, key, members, k) ==
    [kind |-> "data", label |-> <<>>, date |-> key[1],
     src |-> members[k], lines |-> its[members[k]].lines]

\* one data row; the date column is filled on the first row of the group only
DataRow(its, key, members, k) ==
    [kind |-> "data", label |-> <<>>,
     date |-> IF k = 1 THEN key[1] ELSE "",
     src |-> members[k], lines |-> its[members[k]].lines]

GroupRows(its, group) ==
    <<SectionRow(group.key)>>
    \o [k \in 1..Len(group.members) |-> DataRow(its, group.key, group.members, k)]

RECURSIVE TableRows(_, _, _)
\* the rows of the first n grps
TableRows(its, grps, n) ==
    IF n = 0 THEN <<HeaderRow>>
    ELSE TableRows(its, grps, n - 1) \o GroupRows(its, grps[n])

\* table_data of _build_items_table: the header, then the groups in order
TableData(its, grps) == TableRows(its, grps, Len(grps))

\* The height the Table gives a row of plain strings: leading (12 pt, the
\* cell style's default; FONTSIZE does not change it) per text line plus the
\* row's TOPPADDING and BOTTOMPADDING.
RowHeight(row) ==
    CASE row.kind = "header" -> 12 * PT * row.lines + 5 * PT + 5 * PT
      [] row.kind = "section" -> 12 * PT * row.lines + 4 * PT + 4 * PT
      [] OTHER -> 12 * PT * row.lines + 3 * PT + 3 * PT

RECURSIVE HeightOfRows(_, _, _)
\* the height of rows lo..hi of tbl
HeightOfRows(tbl, lo, hi) ==
    IF lo > hi THEN 0
    ELSE IF lo = hi THEN RowHeight(tbl[lo])
    ELSE LET mid == (lo + hi) \div 2
         IN  HeightOfRows(tbl, lo, mid) + HeightOfRows(tbl, mid + 1, hi)

\* the height of the first n rows of tbl
HeightOfFirst(tbl, n) == HeightOfRows(tbl, 1, n)

\* tbl.wrap(...)[1]: the height of the whole table
TableHeight(tbl) == HeightOfFirst(tbl, Len(tbl))

\* The number of leading rows that fit in availHeight.
FirstSplitRow(tbl, availHeight) ==
    CHOOSE n \in 0..Len(tbl) :
        /\ HeightOfFirst(tbl, n) <= availHeight
        /\ (n < Len(tbl) => HeightOfFirst(tbl, n + 1) > availHeight)

\* Split with the remainder starting one row late: the row at the break is lost
SplitLosesBreakRow(tbl, availHeight) ==
    LET n == FirstSplitRow(tbl, availHeight)
    IN  IF n <= 1 THEN <<>>
        ELSE IF n = Len(tbl) THEN <<tbl>>
        ELSE <<SubSeq(tbl, 1, n), <<tbl[1]>> \o SubSeq(tbl, n + 2, Len(tbl))>>

\* Table.split(availWidth, availHeight) of a table with repeatRows=1, split
\* by row: [] when no row beyond the repeated header fits, [self] when all
\* rows fit, else the leading rows that fit and the header plus the rest.
Split(tbl, availHeight) ==
    LET n == FirstSplitRow(tbl, availHeight)
    IN  IF n <= 1 THEN <<>>
        ELSE IF n = Len(tbl) THEN <<tbl>>
        ELSE <<SubSeq(tbl, 1, n), <<tbl[1]>> \o SubSeq(tbl, n + 1, Len(tbl))>>

----------------------------------------------------------------------------
(* Drawing: the canvas is the sequence of pages, each the sequence of the
   draw operations made on it; showPage starts the next page. *)

\* the last page gets one more draw operation
Draw(pgs, op) == [pgs EXCEPT ![Len(pgs)] = Append(@, op)]

\* c.showPage()
ShowPage(pgs) == Append(pgs, <<>>)

\* the header that aborts on an unreadable logo would draw nothing; here the
\* fallback forgotten: no circle after a failed image
LogoWithoutFallback(d) ==
    IF Get(d, "logo_path", "") = "" THEN "circle"
    ELSE IF Get(d, "logo_path", "") \in Unreadable THEN "nothing" ELSE "image"

\* _draw_header: the logo image if logo_path is set and c.drawImage succeeds,
\* the circle if there is no path or drawImage raised
Logo(d) ==
    IF Get(d, "logo_path", "") = "" \/ Get(d, "logo_path", "") \in Unreadable
    THEN "circle" ELSE "image"

\* _draw_header(c, W, H, data): logo or circle with initials, then the name
HeaderOp(d) ==
    [op |-> "header", logo |-> Logo(d),
     initials |-> IF Logo(d) = "circle"
                  THEN Initials(Get(d, "restaurant_name", "R")) ELSE "",
     name |-> Get(d, "restaurant_name", "")]

\* _draw_continuation_header(c, W, data): the name in the dark bar
ContinuationHeaderOp(d) ==
    [op |-> "continuation_header", name |-> Get(d, "restaurant_name", "")]

\* _draw_footer(c, W, data, page, total_pages): "Thank you for dining at
\* {name}", "Page {page} of {total_pages}  |  {name}"
FooterOp(page, tp) ==
    [op |-> "footer", page |-> page, total_pages |-> tp,
     thanks |-> Get(data, "restaurant_name", "us"),
     name |-> Get(data, "restaurant_name", "")]

\* tbl.drawOn(c, _TABLE_X, y): the rows drawn and the y of the table's bottom
TableOp(tbl, y) == [op |-> "table", rows |-> tbl, y |-> y]

\* _draw_totals(c, W, tot_y, totals)
TotalsOp(tot_y) == [op |-> "totals", y |-> tot_y]

\* _draw_totals returns gt_bar_bottom - 5 * mm, gt_bar_bottom = tot_y - 4 * row_h - 2 * mm
WordsY(tot_y) == tot_y - 4 * row_h - 2 * MM - 5 * MM

\* _draw_payment_stamp(c, W, words_y, data): the box's lower edge is at
\* stamp_y - 4 * mm, stamp_y = words_y - 1.5 * row_h
StampOp(words_y) == [op |-> "stamp", y |-> words_y - 3 * (row_h \div 2) - 4 * MM]

\* c.drawString(margin, words_y, "Amount in words: ...")
WordsOp(words_y) == [op |-> "words", y |-> words_y]

----------------------------------------------------------------------------
(* generate_invoice *)

\* app.py is not running
NoApp ==
    /\ session_state = [items_df |-> <<>>]
    /\ script = [at |-> "none"]

\* no call of utils.py, no second call of generate_invoice and no app
NothingOutside ==
    /\ args = [fn |-> "none"]
    /\ ret = [status |-> "none"]
    /\ other = [pc |-> "none"]
    /\ NoApp

\* the call's locals before its first statement
InitLocals ==
    /\ exc = ""
    /\ pc = "start"
    /\ groups = <<>>
    /\ table_data = <<>>
    /\ page1_tbl = <<>>
    /\ leftover = <<>>
    /\ remaining_tbls = <<>>
    /\ total_pages = 0
    /\ page_num = 0
    /\ cur_bot_y = 0
    /\ drawn = 0
    /\ pages = <<>>

\* one call of generate_invoice, the name and the logo being those of the
\* docstring's data
Init ==
    /\ items \in InputLists
    /\ data = DocData("Spice Garden", "")
    /\ InitLocals
    /\ NothingOutside

\* one call with the data of either caller and few items
SmallLists == UNION { [1..n -> ItemKinds] : n \in 0..2 }

\* one line item whose numeric fields are what the caller left in them
FieldItems ==
    { [date |-> "27 Jan", category |-> "", meal_type |-> "Lunch", lines |-> 1,
       qty |-> q, unit_price |-> u, amount |-> a] :
        q \in FieldKinds, u \in FieldKinds, a \in FieldKinds }

\* such an item alone, or after an item of another group
FieldLists ==
    { <<f>> : f \in FieldItems } \cup { <<RunItemB, f>> : f \in FieldItems }

InitData ==
    /\ items \in SmallLists \cup FieldLists
    /\ data \in DataKinds
    /\ InitLocals
    /\ NothingOutside

\* Page 1 fixed elements: header, meta box, billing info (which gives sep_y)
DrawPage1Fixed ==
    /\ pc = "start"
    /\ pages' = << <<HeaderOp(data), [op |-> "meta_box"], [op |-> "billing_info"]>> >>
    /\ pc' = IF Len(items) = 0 THEN "no_items" ELSE "build"
    /\ UNCHANGED <<outside, data, exc, items, groups, table_data, page1_tbl, leftover, remaining_tbls,
                   total_pages, page_num, cur_bot_y, drawn>>

\* the early return with the footer forgotten
DrawNoItemsWithoutFooter ==
    /\ pc = "no_items"
    /\ LET tot_y == sep_y - 30 * MM
           words_y == WordsY(tot_y)
       IN  pages' = Draw(Draw(pages, TotalsOp(tot_y)), StampOp(words_y))
    /\ pc' = "done"
    /\ UNCHANGED <<outside, data, exc, items, groups, table_data, page1_tbl, leftover, remaining_tbls,
                   total_pages, page_num, cur_bot_y, drawn>>

\* if not items: totals, stamp and footer on page 1, save and return
DrawNoItems ==
    /\ pc = "no_items"
    /\ LET tot_y == sep_y - 30 * MM
           words_y == WordsY(tot_y)
       IN  pages' = Draw(Draw(Draw(pages, TotalsOp(tot_y)), StampOp(words_y)),
                         FooterOp(1, 1))
    /\ pc' = "done"
    /\ UNCHANGED <<outside, data, exc, items, groups, table_data, page1_tbl, leftover, remaining_tbls,
                   total_pages, page_num, cur_bot_y, drawn>>

\* _build_items_table, one pass of for item in items
GroupItem ==
    /\ pc = "build"
    /\ Len(table_data) = 0
    /\ LET n == Grouped(groups) + 1
       IN  /\ n <= Len(items)
           /\ groups' = SetDefaultAppend(groups, GroupKey(items[n]), n)
    /\ UNCHANGED <<outside, data, exc, items, pc, table_data, page1_tbl, leftover, remaining_tbls,
                   total_pages, page_num, cur_bot_y, drawn, pages>>

\* _build_items_table, after the grouping loop: the rows of the table; the
\* float() of a row that has no number ends the call with its exception
BuildTable ==
    /\ pc = "build"
    /\ Grouped(groups) = Len(items)
    /\ IF FirstError(items, groups) # ""
       THEN /\ exc' = FirstError(items, groups)
            /\ pc' = "raised"
            /\ UNCHANGED table_data
       ELSE /\ table_data' = TableData(items, groups)
            /\ pc' = "split_page1"
            /\ UNCHANGED exc
    /\ UNCHANGED <<outside, data, items, groups, page1_tbl, leftover, remaining_tbls,
                   total_pages, page_num, cur_bot_y, drawn, pages>>

\* chunks = full_tbl.split(_TABLE_TOTAL_W, page1_avail); chunks[0] raises
\* IndexError when the split gives no chunk
SplitPage1 ==
    /\ pc = "split_page1"
    /\ LET chunks == Split(table_data, page1_avail)
       IN  IF Len(chunks) = 0
           THEN /\ pc' = "raised"
                /\ exc' = "IndexError"
                /\ UNCHANGED <<page1_tbl, leftover>>
           ELSE /\ page1_tbl' = chunks[1]
                /\ leftover' = IF Len(chunks) = 1 THEN <<>> ELSE chunks[2]
                /\ UNCHANGED exc
                /\ pc' = IF Len(chunks) = 1 THEN "draw_page1" ELSE "split_rest"
    /\ UNCHANGED <<outside, data, items, groups, table_data, remaining_tbls, total_pages, page_num,
                   cur_bot_y, drawn, pages>>

\* one pass of the while True loop: pieces = leftover.split(..., cont_avail)
SplitRest ==
    /\ pc = "split_rest"
    /\ LET pieces == Split(leftover, cont_avail)
       IN  IF Len(pieces) = 0
           THEN /\ pc' = "raised"
                /\ exc' = "IndexError"
                /\ UNCHANGED <<leftover, remaining_tbls>>
           ELSE /\ remaining_tbls' = Append(remaining_tbls, pieces[1])
                /\ UNCHANGED exc
                /\ IF Len(pieces) = 1
                   THEN /\ pc' = "draw_page1"
                        /\ UNCHANGED leftover
                   ELSE /\ pc' = "split_rest"
                        /\ leftover' = pieces[2]
    /\ UNCHANGED <<outside, data, items, groups, table_data, page1_tbl, total_pages, page_num,
                   cur_bot_y, drawn, pages>>

\* total_pages, the page-1 table and the page-1 footer
DrawPage1Table ==
    /\ pc = "draw_page1"
    /\ total_pages' = 1 + Len(remaining_tbls)
    /\ LET doc_y == sep_y - 2 * MM
           tbl_h == TableHeight(page1_tbl)
       IN  /\ pages' = Draw(Draw(pages, TableOp(page1_tbl, doc_y - tbl_h)), FooterOp(1, 1))
           /\ cur_bot_y' = doc_y - tbl_h
    /\ page_num' = IF Len(remaining_tbls) > 0 THEN 2 ELSE 1
    /\ drawn' = 0
    /\ pc' = IF Len(remaining_tbls) > 0 THEN "draw_rest" ELSE "totals"
    /\ UNCHANGED <<outside, data, exc, items, groups, table_data, page1_tbl, leftover, remaining_tbls>>

\* one pass of for tbl_chunk in remaining_tbls
DrawContinuationPage ==
    /\ pc = "draw_rest"
    /\ LET tbl_chunk == remaining_tbls[drawn + 1]
           top_y == continuation_top_y
           ch == TableHeight(tbl_chunk)
       IN  /\ pages' = Draw(Draw(Draw(ShowPage(pages), ContinuationHeaderOp(data)),
                                 TableOp(tbl_chunk, top_y - ch)),
                            FooterOp(page_num, 1))
           /\ cur_bot_y' = top_y - ch
    /\ page_num' = page_num + 1
    /\ drawn' = drawn + 1
    /\ pc' = IF drawn + 1 = Len(remaining_tbls) THEN "totals" ELSE "draw_rest"
    /\ UNCHANGED <<outside, data, exc, items, groups, table_data, page1_tbl, leftover, remaining_tbls, total_pages>>

\* the test with the footer height left out
NeedsTotalsPageIgnoringFooter(bot_y) == bot_y < TOTALS_H

\* the test with the comparison turned round
NeedsTotalsPageInverted(bot_y) == bot_y - FOOTER_H > TOTALS_H

\* if cur_bot_y - FOOTER_H < TOTALS_H: not enough room below the last chunk
NeedsTotalsPage(bot_y) == bot_y - FOOTER_H < TOTALS_H

\* the totals drawn where the last chunk ended and the page break after
\* them: the stamp alone goes to the new page
DrawTotalsBeforePageBreak ==
    /\ pc = "totals"
    /\ LET new_page == NeedsTotalsPage(cur_bot_y)
           tot_y == cur_bot_y - 6 * MM
           words_y == WordsY(tot_y)
           drawn_totals == Draw(Draw(pages, TotalsOp(tot_y)), WordsOp(words_y))
           pgs == IF new_page
                  THEN Draw(Draw(ShowPage(drawn_totals), ContinuationHeaderOp(data)),
                            FooterOp(page_num, 1))
                  ELSE drawn_totals
       IN  /\ UNCHANGED cur_bot_y
           /\ pages' = Draw(pgs, StampOp(words_y))
    /\ pc' = "done"
    /\ UNCHANGED <<outside, data, exc, items, groups, table_data, page1_tbl, leftover,
                   remaining_tbls, total_pages, page_num, drawn>>

\* the totals: a new page first if there is not enough room below the last
\* chunk; then totals, amount in words, payment stamp, c.save()
DrawTotals ==
    /\ pc = "totals"
    /\ LET new_page == NeedsTotalsPage(cur_bot_y)
           bot_y == IF new_page THEN cont_top ELSE cur_bot_y
           pgs == IF new_page
                  THEN Draw(Draw(ShowPage(pages), ContinuationHeaderOp(data)),
                            FooterOp(page_num, 1))
                  ELSE pages
           tot_y == bot_y - 6 * MM
           words_y == WordsY(tot_y)
       IN  /\ cur_bot_y' = bot_y
           /\ pages' = Draw(Draw(Draw(pgs, TotalsOp(tot_y)), WordsOp(words_y)),
                            StampOp(words_y))
    /\ pc' = "done"
    /\ UNCHANGED <<outside, data, exc, items, groups, table_data, page1_tbl, leftover, remaining_tbls,
                   total_pages, page_num, drawn>>

Next ==
    \/ DrawPage1Fixed
    \/ DrawNoItems
    \/ GroupItem
    \/ BuildTable
    \/ SplitPage1
    \/ SplitRest
    \/ DrawPage1Table
    \/ DrawContinuationPage
    \/ DrawTotals

Spec == Init /\ [][Next]_vars

SpecData == InitData /\ [][Next]_vars

----------------------------------------------------------------------------
(* Reading the canvas *)

\* the positions of the draw operations of kind k on page p
OpsOf(p, k) == { i \in 1..Len(pages[p]) : pages[p][i].op = k }

\* the pages that carry a table chunk
TablePages == { p \in 1..Len(pages) : OpsOf(p, "table") # {} }

\* the table chunk drawn on page p
TableOn(p) == pages[p][CHOOSE i \in OpsOf(p, "table") : TRUE]

RECURSIVE DrawnBody(_)
\* the rows drawn on pages 1..p in page order, each chunk without its
\* repeated column-header row
DrawnBody(p) ==
    IF p = 0 THEN <<>>
    ELSE DrawnBody(p - 1)
         \o (IF p \in TablePages THEN Tail(TableOn(p).rows) ELSE <<>>)

\* the chunks of the split, page 1 first
Chunks == <<page1_tbl>> \o remaining_tbls

RECURSIVE ChunkBody(_, _)
\* the rows of the first n chunks, each without its column-header row
ChunkBody(chunks, n) ==
    IF n = 0 THEN <<>> ELSE ChunkBody(chunks, n - 1) \o Tail(chunks[n])

\* G: the number of distinct (date, meal_type) keys among the items
DistinctKeys == Cardinality({ GroupKey(items[i]) : i \in 1..Len(items) })

\* the splitting of a built table has come to its end
SplitFinished == Len(items) > 0 /\ pc \in {"draw_page1", "draw_rest", "totals", "done"}

----------------------------------------------------------------------------
(* Claims *)

\* C1: for a non-empty item list of N items in G groups, the page chunks of
\* generate_invoice (the page-1 split, then the continuation splits), in
\* page order, hold every section-header row and every data row of the built
\* table exactly once and in the original order, N + G rows in all, each
\* chunk starting with the repeated column-header row; the chunks drawn on
\* the pages are these chunks.
C1_ChunksHoldEveryRowOnce ==
    /\ SplitFinished =>
        /\ ChunkBody(Chunks, Len(Chunks)) = Tail(table_data)
        /\ Len(ChunkBody(Chunks, Len(Chunks))) = Len(items) + DistinctKeys
        /\ \A k \in 1..Len(Chunks) : Chunks[k][1] = HeaderRow
        /\ pc = "draw_page1" =>
              \A i \in 1..Len(items) :
                  Cardinality({ r \in 1..Len(table_data) : table_data[r].src = i }) = 1
    /\ (pc = "done" /\ Len(items) > 0) => DrawnBody(Len(pages)) = Tail(table_data)

\* C1 witness: a finished document whose table went over three pages
C1_Witness ==
    /\ pc = "done"
    /\ Cardinality(TablePages) >= 3
    /\ DistinctKeys >= 2

\* C2: no page chunk ends with a section-header row (the data rows of a
\* section follow its header, so they would all be in the remainder).
C2_NoOrphanSectionHeader ==
    SplitFinished =>
        \A k \in 1..Len(Chunks) : Chunks[k][Len(Chunks[k])].kind # "section"

\* C3: in a finished document every page has exactly one footer, and the
\* footer's page number is the page's position.
C3_OneFooterWithItsPageNumber ==
    pc = "done" =>
        \A p \in 1..Len(pages) :
            /\ Cardinality(OpsOf(p, "footer")) = 1
            /\ \A i \in OpsOf(p, "footer") : pages[p][i].page = p

\* C4: in a finished document the total-pages value of every footer is the
\* number of pages of the document.
C4_FooterTotalIsPageCount ==
    pc = "done" =>
        \A p \in 1..Len(pages) :
            \A i \in OpsOf(p, "footer") : pages[p][i].total_pages = Len(pages)

\* the last page that carries a table chunk
LastTablePage == CHOOSE p \in TablePages : \A q \in TablePages : q <= p

\* the kinds of the draw operations on page p
KindsOn(p) == { pages[p][i].op : i \in 1..Len(pages[p]) }

\* C5: with a non-empty item list, b the y of the bottom of the last table
\* chunk: if b - 16mm < 62mm, one more page follows that carries only the
\* continuation header and a footer besides the totals block (no table),
\* and the totals are drawn on it at continuation-top - 6mm; otherwise no
\* page follows and the totals are drawn at b - 6mm on the last chunk's page.
C5_TotalsPlacement ==
    (pc = "done" /\ Len(items) > 0) =>
        LET p == LastTablePage
            b == TableOn(p).y
        IN  IF b - 16 * MM < 62 * MM
            THEN /\ Len(pages) = p + 1
                 /\ KindsOn(p + 1) = {"continuation_header", "footer", "totals", "words", "stamp"}
                 /\ OpsOf(p, "totals") = {}
                 /\ \A i \in OpsOf(p + 1, "totals") :
                        pages[p + 1][i].y = (297 * MM - 17 * MM) - 6 * MM
            ELSE /\ Len(pages) = p
                 /\ Cardinality(OpsOf(p, "totals")) = 1
                 /\ \A i \in OpsOf(p, "totals") : pages[p][i].y = b - 6 * MM

\* C5 witness: a finished document with a totals-only page after a
\* continuation page, the bottom of the last chunk lying between 62mm and 78mm
C5_Witness ==
    /\ pc = "done"
    /\ Len(items) > 0
    /\ Len(pages) = LastTablePage + 1
    /\ LastTablePage >= 2
    /\ TableOn(LastTablePage).y >= 62 * MM

\* C6: with an empty item list there is exactly one page, no table is built
\* or drawn, the totals are drawn at separator_y - 30mm, and exactly one
\* footer is drawn, with page 1 of 1.
C6_EmptyItemsSinglePage ==
    (pc = "done" /\ Len(items) = 0) =>
        /\ Len(pages) = 1
        /\ Len(groups) = 0 /\ Len(table_data) = 0
        /\ OpsOf(1, "table") = {}
        /\ Cardinality(OpsOf(1, "totals")) = 1
        /\ \A i \in OpsOf(1, "totals") : pages[1][i].y = (297 - 115 - 30) * MM
        /\ Cardinality(OpsOf(1, "footer")) = 1
        /\ \A i \in OpsOf(1, "footer") :
              pages[1][i].page = 1 /\ pages[1][i].total_pages = 1

\* C6 witness: the finished document of an empty item list
C6_Witness == pc = "done" /\ Len(items) = 0 /\ Len(pages) = 1

\* C7 as stated: a page 2 or later exists only when the first split of the
\* table against the page-1 height left a remainder.
C7_Page2OnlyAfterRemainder ==
    (pc = "done" /\ Len(pages) >= 2) => Len(remaining_tbls) > 0

\* C7 amended: a page 2 or later exists only when the first split left a
\* remainder, or when the whole table is on page 1 and the room below it
\* (its bottom - 16mm) is less than 62mm; page 2 is then the only further
\* page and carries the totals and no table.
C7_Page2OnlyAfterRemainderOrForTotals ==
    (pc = "done" /\ Len(pages) >= 2) =>
        \/ Len(remaining_tbls) > 0
        \/ /\ Len(pages) = 2
           /\ TablePages = {1}
           /\ TableOn(1).y - 16 * MM < 62 * MM
           /\ OpsOf(2, "totals") # {}

\* C7 witness: a finished two-page document whose table is all on page 1
C7_Witness ==
    pc = "done" /\ Len(pages) = 2 /\ Len(remaining_tbls) = 0 /\ Len(items) > 1

\* C8: every split against the continuation height gives a chunk that holds
\* at least one row beyond the repeated column header.
C8_EverySplitYieldsRows ==
    pc = "split_rest" =>
        LET pieces == Split(leftover, cont_avail)
        IN  Len(pieces) >= 1 /\ Len(pieces[1]) >= 2

\* the row of the built table that shows item i
RowOf(i) == CHOOSE r \in 1..Len(table_data) : table_data[r].src = i

\* the section-header row that row r stands under
SectionOf(r) ==
    CHOOSE h \in 1..r :
        /\ table_data[h].kind = "section"
        /\ \A q \in (h + 1)..r : table_data[q].kind # "section"

\* the first position of item i's key in the input
FirstOfKey(i) ==
    CHOOSE f \in 1..i :
        /\ GroupKey(items[f]) = GroupKey(items[i])
        /\ \A q \in 1..(f - 1) : GroupKey(items[q]) # GroupKey(items[i])

\* C9: grouping in _build_items_table.  At every pass of the grouping loop
\* each key has exactly one group, the groups stand in the order of the
\* first occurrence of their keys, and a group holds exactly the items of
\* its key taken so far, in input order.  In the table just built (it does
\* not change afterwards) the items of
\* one key stand under one section header, in input order, and the section
\* headers stand in the order of first occurrence; keys [A, B, A] give the
\* sections [A, B] with rows 1 and 3 in A.
C9_GroupingByFirstOccurrence ==
    /\ \A g \in 1..Len(groups) :
          /\ Len(groups[g].members) > 0
          /\ \A k \in 1..Len(groups[g].members) :
                /\ GroupKey(items[groups[g].members[k]]) = groups[g].key
                /\ k > 1 => groups[g].members[k - 1] < groups[g].members[k]
          /\ \A i \in 1..Grouped(groups) :
                GroupKey(items[i]) = groups[g].key
                    => \E k \in 1..Len(groups[g].members) : groups[g].members[k] = i
          /\ \A h \in 1..Len(groups) :
                /\ (h # g => groups[h].key # groups[g].key)
                /\ (g < h => groups[g].members[1] < groups[h].members[1])
    /\ pc = "split_page1" =>
          \A i, j \in 1..Len(items) :
              /\ table_data[RowOf(i)].kind = "data"
              /\ (GroupKey(items[i]) = GroupKey(items[j]))
                    <=> (SectionOf(RowOf(i)) = SectionOf(RowOf(j)))
              /\ (GroupKey(items[i]) = GroupKey(items[j]) /\ i < j) => RowOf(i) < RowOf(j)
              /\ FirstOfKey(i) < FirstOfKey(j) => SectionOf(RowOf(i)) < SectionOf(RowOf(j))
    /\ ( /\ Len(table_data) > 0
         /\ Len(items) = 3
         /\ GroupKey(items[1]) = GroupKey(items[3])
         /\ GroupKey(items[1]) # GroupKey(items[2]) )
       => /\ groups = << [key |-> GroupKey(items[1]), members |-> <<1, 3>>],
                        [key |-> GroupKey(items[2]), members |-> <<2>>] >>
          /\ [r \in 1..Len(table_data) |-> table_data[r].src] = <<0, 0, 1, 3, 0, 2>>

\* C9 witness: the table built for items with keys [A, B, A]
C9_Witness ==
    /\ Len(table_data) > 0
    /\ Len(items) = 3
    /\ GroupKey(items[1]) = GroupKey(items[3])
    /\ GroupKey(items[1]) # GroupKey(items[2])

\* a line item as the callers hand it over: "category" and no "meal_type"
IsCallerRow(item) == item.category # "" /\ item.meal_type = ""

\* C10: two caller rows with the same date label and different category
\* labels stand in different sections of the built table, each under a
\* section header that names its category.
C10_CategoriesGetOwnSections ==
    Len(table_data) > 0 =>
        \A i, j \in 1..Len(items) :
            ( /\ IsCallerRow(items[i]) /\ IsCallerRow(items[j])
              /\ items[i].date = items[j].date
              /\ items[i].category # items[j].category )
            => /\ SectionOf(RowOf(i)) # SectionOf(RowOf(j))
               /\ \E k \in 1..Len(table_data[SectionOf(RowOf(i))].label) :
                      table_data[SectionOf(RowOf(i))].label[k] = Upper(items[i].category)

----------------------------------------------------------------------------
(* The business name, the logo and the numeric fields *)

\* every draw operation made so far
AllOps == UNION { { pages[p][k] : k \in 1..Len(pages[p]) } : p \in 1..Len(pages) }

NameOps == { o \in AllOps : o.op \in {"header", "continuation_header", "footer"} }

\* C11: for the data app.py assembles, the name drawn in the page-1 header,
\* in the continuation bar and in the footer is the business name entered in
\* the form, and the initials in the circle are the initials of that name.
C11_NameDrawnIsNameEntered ==
    "business_name" \in DOMAIN data =>
        /\ \A o \in NameOps : o.name = data.business_name
        /\ \A o \in AllOps :
               o.op = "header" /\ o.logo = "circle" =>
                   o.initials = Initials(data.business_name)

\* an item one of whose qty, unit_price, amount the row's float() cannot
\* turn into a number
Uncoercible(item) == RowError(item) # ""

\* C16: when a line item's qty, unit_price or amount cannot be coerced to a
\* number, generate_invoice ends with a RenderingError and returns no bytes.
C16_UncoercibleFieldRaisesRenderingError ==
    (\E i \in 1..Len(items) : Uncoercible(items[i])) =>
        /\ pc \in {"start", "build", "raised"}
        /\ pc = "raised" => exc = "RenderingError"

\* C17: a header holds exactly one of logo image and initials circle, the
\* circle exactly when there is no logo path or the image could not be drawn;
\* a logo that cannot be drawn never ends the call: an exception comes from
\* the table only.
C17_LogoFallsBackToCircle ==
    /\ \A o \in AllOps :
          o.op = "header" =>
              /\ o.logo \in {"image", "circle"}
              /\ o.logo = "circle" <=>
                     \/ Get(data, "logo_path", "") = ""
                     \/ Get(data, "logo_path", "") \in Unreadable
    /\ pc # "start" => \E o \in AllOps : o.op = "header"
    /\ pc = "raised" =>
          \/ exc = "IndexError" /\ Len(table_data) > 0
          \/ exc # "" /\ exc = FirstError(items, groups)

\* a document returned although its logo could not be drawn
C17_Witness ==
    /\ pc = "done"
    /\ Get(data, "logo_path", "") \in Unreadable
    /\ Len(pages) > 1
    /\ \E o \in AllOps : o.op = "header" /\ o.logo = "circle" /\ o.initials = "SG"

----------------------------------------------------------------------------
(* utils.py: calculate_totals and compute_item_amount *)

\* Money is an integer number of units of 10^-7 rupee, so that every product
\* of the program is exact: a quantity is a whole number, a unit price a
\* whole number of paise, an item's gst_pct a whole percentage, a rate of
\* the invoice a whole number of tenths of a percent.
PAISE == 100000

\* longest item list handed to calculate_totals
MaxTotalsItems == 2

Quantities == {1, 3}
UnitPrices == {33, 250}
GstPcts == {5, 18}
Rates == {0, 25, 90}

\* a field of an item: a number, or what float(x or 0) makes of it
Num(n) == [kind |-> "num", v |-> n]
NoNumber == [kind |-> "text", v |-> 0]
Nothing == [kind |-> "none", v |-> 0]

TotalsItems ==
    { [qty |-> Num(q), unit_price |-> Num(u), gst_pct |-> Num(g)] :
        q \in Quantities, u \in UnitPrices, g \in GstPcts }

\* items one or more of whose fields hold a string that is no number, or None
OddItems ==
    { [qty |-> q, unit_price |-> u, gst_pct |-> g] :
        q \in {Num(1), NoNumber, Nothing}, u \in {Num(33), NoNumber, Nothing},
        g \in {Num(5), NoNumber, Nothing} }

TotalsLists ==
    UNION { [1..n -> TotalsItems] : n \in 0..MaxTotalsItems }
    \cup { <<o>> : o \in OddItems }
    \cup { <<t, o>> : t \in TotalsItems, o \in OddItems }
    \cup { <<o, t>> : t \in TotalsItems, o \in OddItems }

\* round(x, 2) of an exact x counted in the unit-th of a paise: the nearest
\* paise, a value halfway to the even one
RoundHalfEven(x, unit) ==
    LET q == x \div unit
        r == x % unit
    IN  IF 2 * r > unit \/ (2 * r = unit /\ q % 2 = 1) THEN q + 1 ELSE q

\* round(x, 2) of an x in units of 10^-7 rupee
Round2(x) == RoundHalfEven(x, PAISE)

\* float(f or 0) raises on a string that is no number
Raises(f) == f.kind = "text"

\* float(f or 0): None, '' and 0 give 0
FloatOf(f) == IF f.kind = "num" THEN f.v ELSE 0

\* the three conversions of one loop pass fail together: except ... continue
Skipped(item) == Raises(item.qty) \/ Raises(item.unit_price) \/ Raises(item.gst_pct)

\* a field that is no number counted as 0 and the item kept
ContributionOfCoercibleFields(item) ==
    LET qty == IF Raises(item.qty) THEN 0 ELSE FloatOf(item.qty)
        unit_price == IF Raises(item.unit_price) THEN 0 ELSE FloatOf(item.unit_price)
        gst_pct == IF Raises(item.gst_pct) THEN 0 ELSE FloatOf(item.gst_pct)
    IN  [base |-> qty * unit_price * PAISE,
         tax |-> qty * unit_price * gst_pct * (PAISE \div 100)]

\* one pass of for item in items: base = qty * unit_price and
\* tax = base * gst_pct / 100, or nothing when a conversion raised
Contribution(item) ==
    IF Skipped(item) THEN [base |-> 0, tax |-> 0]
    ELSE [base |-> FloatOf(item.qty) * FloatOf(item.unit_price) * PAISE,
          tax |-> FloatOf(item.qty) * FloatOf(item.unit_price) * FloatOf(item.gst_pct)
                  * (PAISE \div 100)]

\* subtotal_pre_gst and item_tax_total after the loop
RECURSIVE Accumulate(_)
Accumulate(its) ==
    IF Len(its) = 0 THEN [base |-> 0, tax |-> 0]
    ELSE LET rest == Accumulate(SubSeq(its, 1, Len(its) - 1))
             c == Contribution(its[Len(its)])
         IN  [base |-> rest.base + c.base, tax |-> rest.tax + c.tax]

\* the unrounded subtotal, cgst, sgst, service_charge and grand_total
RawTotals(its, cgst_pct, sgst_pct, service_charge_pct) ==
    LET acc == Accumulate(its)
        subtotal == acc.base + acc.tax
        cgst == (subtotal \div 1000) * cgst_pct
        sgst == (subtotal \div 1000) * sgst_pct
        service_charge == (subtotal \div 1000) * service_charge_pct
    IN  [subtotal |-> subtotal, cgst |-> cgst, sgst |-> sgst,
         service_charge |-> service_charge,
         grand_total |-> subtotal + cgst + sgst + service_charge]

\* calculate_totals: the five amounts rounded at the return, in paise
calculate_totals(its, cgst_pct, sgst_pct, service_charge_pct) ==
    LET raw == RawTotals(its, cgst_pct, sgst_pct, service_charge_pct)
    IN  [status |-> "returned",
         subtotal |-> Round2(raw.subtotal),
         cgst |-> Round2(raw.cgst),
         sgst |-> Round2(raw.sgst),
         service_charge |-> Round2(raw.service_charge),
         grand_total |-> Round2(raw.grand_total),
         cgst_pct |-> cgst_pct, sgst_pct |-> sgst_pct,
         service_charge_pct |-> service_charge_pct]

\* compute_item_amount(qty, unit_price, gst_pct), in paise
compute_item_amount(qty, unit_price, gst_pct) ==
    RoundHalfEven(qty * unit_price * (100 + gst_pct), 100)

\* generate_invoice is not running
NoInvoice ==
    /\ items = <<>>
    /\ data = [logo_path |-> ""]
    /\ exc = ""
    /\ pc = "idle"
    /\ groups = <<>>
    /\ table_data = <<>>
    /\ page1_tbl = <<>>
    /\ leftover = <<>>
    /\ remaining_tbls = <<>>
    /\ total_pages = 0
    /\ page_num = 0
    /\ cur_bot_y = 0
    /\ drawn = 0
    /\ pages = <<>>
    /\ other = [pc |-> "none"]

invoiceVars == <<other, data, exc, items, pc, groups, table_data, page1_tbl, leftover,
                 remaining_tbls, total_pages, page_num, cur_bot_y, drawn, pages>>

InitTotals ==
    /\ args \in { [fn |-> "calculate_totals", items |-> its, cgst_pct |-> c,
                   sgst_pct |-> g, service_charge_pct |-> v] :
                    its \in TotalsLists, c \in Rates, g \in Rates, v \in Rates }
    /\ ret = [status |-> "running"]
    /\ NoInvoice
    /\ NoApp

CalculateTotals ==
    /\ args.fn = "calculate_totals"
    /\ ret.status = "running"
    /\ ret' = calculate_totals(args.items, args.cgst_pct, args.sgst_pct,
                               args.service_charge_pct)
    /\ UNCHANGED <<args, invoiceVars, session_state, script>>

NextTotals == CalculateTotals

SpecTotals == InitTotals /\ [][NextTotals]_vars

----------------------------------------------------------------------------
(* The totals *)

Returned == args.fn = "calculate_totals" /\ ret.status = "returned"

\* the unrounded amounts of the call
Raw == RawTotals(args.items, args.cgst_pct, args.sgst_pct, args.service_charge_pct)

\* an amount halfway between two paise: the binary fraction the program holds
\* for it lies a little above or below, and round() goes with the fraction
Halfway(x) == 2 * (x % PAISE) = PAISE

\* none of the call's unrounded amounts is halfway
NoneHalfway ==
    \A k \in {"subtotal", "cgst", "sgst", "service_charge", "grand_total"} :
        ~Halfway(Raw[k])

Abs(x) == IF x < 0 THEN 0 - x ELSE x

\* C12: the grand_total returned differs by at most 0.01 (one paise) from
\* round(subtotal + cgst + sgst + service_charge, 2) of the returned amounts.
C12_GrandTotalIsSumOfRounded ==
    Returned /\ NoneHalfway =>
        Abs(ret.grand_total
            - Round2((ret.subtotal + ret.cgst + ret.sgst + ret.service_charge) * PAISE))
          <= 1

\* round(S * pct / 100, 2), S a number of paise and pct in tenths of a percent
RateOfRounded(S, pct) == S * pct * (PAISE \div 1000)

\* C13: each of the returned cgst, sgst and service_charge is
\* round(S * pct / 100, 2) of the returned, already rounded subtotal S.
C13_RatesOfRoundedSubtotal ==
    /\ Returned
    /\ NoneHalfway
    /\ \A pct \in {args.cgst_pct, args.sgst_pct, args.service_charge_pct} :
          ~Halfway(RateOfRounded(ret.subtotal, pct))
    =>
    /\ ret.cgst = Round2(RateOfRounded(ret.subtotal, args.cgst_pct))
    /\ ret.sgst = Round2(RateOfRounded(ret.subtotal, args.sgst_pct))
    /\ ret.service_charge = Round2(RateOfRounded(ret.subtotal, args.service_charge_pct))

WellFormed(item) == \A k \in {"qty", "unit_price", "gst_pct"} : item[k].kind = "num"

\* the sum of the items' amount values
RECURSIVE SumOfAmounts(_)
SumOfAmounts(its) ==
    IF Len(its) = 0 THEN 0
    ELSE compute_item_amount(its[1].qty.v, its[1].unit_price.v, its[1].gst_pct.v)
         + SumOfAmounts(Tail(its))

\* C14: the subtotal returned is the sum of the items' amounts, each
\* compute_item_amount(qty, unit_price, gst_pct), rounded item by item.
C14_SubtotalIsSumOfAmounts ==
    /\ Returned
    /\ NoneHalfway
    /\ \A i \in 1..Len(args.items) :
          /\ WellFormed(args.items[i])
          /\ ~Halfway(Contribution(args.items[i]).base + Contribution(args.items[i]).tax)
    =>
    ret.subtotal = SumOfAmounts(args.items)

\* an item one of whose qty, unit_price, gst_pct is a string that is no number
Malformed(item) == \E k \in {"qty", "unit_price", "gst_pct"} : item[k].kind = "text"

WithoutMalformed(its) == SelectSeq(its, LAMBDA item : ~Malformed(item))

----------------------------------------------------------------------------
(* utils.py: convert_to_words *)

\* A text is the sequence of its words, " " between them.
ONES ==
    <<"", "One", "Two", "Three", "Four", "Five", "Six", "Seven", "Eight", "Nine",
      "Ten", "Eleven", "Twelve", "Thirteen", "Fourteen", "Fifteen", "Sixteen",
      "Seventeen", "Eighteen", "Nineteen">>

TENS == <<"", "", "Twenty", "Thirty", "Forty", "Fifty", "Sixty", "Seventy", "Eighty", "Ninety">>

\* a string as a text: "" has no word
Text(str) == IF str = "" THEN <<>> ELSE <<str>>

\* _words_lt_100(n)
words_lt_100(n) ==
    IF n < 20 THEN Text(ONES[n + 1])
    ELSE <<TENS[(n \div 10) + 1]>> \o (IF n % 10 # 0 THEN <<ONES[(n % 10) + 1]>> ELSE <<>>)

\* _words_lt_1000(n), for n below 2000: ONES[n // 100] is there
words_lt_1000(n) ==
    IF n < 100 THEN words_lt_100(n)
    ELSE <<ONES[(n \div 100) + 1], "Hundred">>
         \o (IF n % 100 # 0 THEN words_lt_100(n % 100) ELSE <<>>)

\* the literals 10_00_000, 1_00_000 and 1000 of _rupee_words
CroreStep == 1000000
LakhStep == 100000
ThousandStep == 1000

\* a crore is a hundred lakh
CroreOfTheScale == 100 * LakhStep

\* _rupee_words(n) raises IndexError when ONES[n // 100] of the first group
\* does not exist
RupeeWordsRaises(n) == (n \div CroreStep) \div 100 >= Len(ONES)

\* _rupee_words(n)
rupee_words(n) ==
    IF n = 0 THEN <<"Zero">>
    ELSE LET n1 == IF n >= CroreStep THEN n % CroreStep ELSE n
             n2 == IF n1 >= LakhStep THEN n1 % LakhStep ELSE n1
             n3 == IF n2 >= ThousandStep THEN n2 % ThousandStep ELSE n2
             n4 == IF n3 >= 100 THEN n3 % 100 ELSE n3
         IN  (IF n >= CroreStep THEN words_lt_1000(n \div CroreStep) \o <<"Crore">> ELSE <<>>)
             \o (IF n1 >= LakhStep THEN words_lt_1000(n1 \div LakhStep) \o <<"Lakh">> ELSE <<>>)
             \o (IF n2 >= ThousandStep
                 THEN words_lt_1000(n2 \div ThousandStep) \o <<"Thousand">> ELSE <<>>)
             \o (IF n3 >= 100 THEN <<ONES[(n3 \div 100) + 1], "Hundred">> ELSE <<>>)
             \o (IF n4 # 0 THEN words_lt_100(n4) ELSE <<>>)

\* round(x) of x = tenths / 10, a value halfway going to the even neighbour
RoundTenths(tenths) ==
    LET q == tenths \div 10
        r == tenths % 10
    IN  IF r > 5 \/ (r = 5 /\ q % 2 = 1) THEN q + 1 ELSE q

\* convert_to_words(amount): amount = rupees + mills / 1000, so that
\* int(amount) = amount.rupees and (amount - rupees) * 100 = mills / 10
convert_to_words(amount) ==
    LET rupees == amount.rupees
        paise == RoundTenths(amount.mills)
    IN  IF RupeeWordsRaises(rupees)
        THEN [status |-> "raised", exc |-> "IndexError"]
        ELSE [status |-> "returned",
              paise |-> paise,
              words |-> <<"Rupees">> \o rupee_words(rupees)
                        \o (IF paise # 0 THEN <<"and", ToString(paise), "Paise">> ELSE <<>>)
                        \o <<"Only">>]

\* most groups of the amounts tried
MaxCrore == 200

\* rupee amounts: every choice of the four groups of the Indian scale
RupeeAmounts ==
    { c * CroreOfTheScale + l * LakhStep + t * ThousandStep + r :
        c \in {0, 1, 12, MaxCrore}, l \in {0, 1, 10, 99}, t \in {0, 1, 45},
        r \in {0, 1, 19, 20, 100, 678} }

\* thousandths of a rupee after the point, none halfway between two paise
Mills == {0, 4, 500, 990, 996}

InitWords ==
    /\ args \in { [fn |-> "convert_to_words", amount |-> [rupees |-> n, mills |-> m]] :
                    n \in RupeeAmounts, m \in Mills }
    /\ ret = [status |-> "running"]
    /\ NoInvoice
    /\ NoApp

ConvertToWords ==
    /\ args.fn = "convert_to_words"
    /\ ret.status = "running"
    /\ ret' = convert_to_words(args.amount)
    /\ UNCHANGED <<args, invoiceVars, session_state, script>>

NextWords == ConvertToWords

SpecWords == InitWords /\ [][NextWords]_vars

Converted == args.fn = "convert_to_words" /\ ret.status # "running"

\* the groups of n in the Indian scale, in words: crore, lakh, thousand, then
\* the hundreds, tens and ones
IndianWords(n) ==
    LET c == n \div CroreOfTheScale
        l == (n % CroreOfTheScale) \div 100000
        t == (n % 100000) \div 1000
        r == n % 1000
    IN  IF n = 0 THEN <<"Zero">>
        ELSE (IF c > 0 THEN words_lt_1000(c) \o <<"Crore">> ELSE <<>>)
             \o (IF l > 0 THEN words_lt_100(l) \o <<"Lakh">> ELSE <<>>)
             \o (IF t > 0 THEN words_lt_100(t) \o <<"Thousand">> ELSE <<>>)
             \o words_lt_1000(r)

\* C19: a whole rupee amount n is rendered by the Indian scale,
\* n = c*10^7 + l*10^5 + t*10^3 + r with l < 100, t < 100, r < 1000: the
\* non-zero groups in the order Crore, Lakh, Thousand, hundreds/tens/ones,
\* between 'Rupees' and 'Only'.
C19_IndianScale ==
    Converted /\ args.amount.mills = 0 =>
        /\ ret.status = "returned"
        /\ ret.words = <<"Rupees">> \o IndianWords(args.amount.rupees) \o <<"Only">>

\* C20: 'and N Paise' is appended exactly when the amount has a fractional
\* part, N then between 1 and 99, and the result ends with 'Only'.
C20_PaiseClause ==
    Converted =>
        /\ ret.status = "returned"
        /\ ret.words[Len(ret.words)] = "Only"
        /\ (\E k \in 1..Len(ret.words) : ret.words[k] = "Paise") <=> args.amount.mills # 0
        /\ (\E k \in 1..Len(ret.words) : ret.words[k] = "Paise") => ret.paise \in 1..99

----------------------------------------------------------------------------
(* Two calls of generate_invoice, interleaved *)

\* the locals of the running call: data, items, buf and c (the pages), the
\* table and its chunks, the counters
Locals ==
    [data |-> data, exc |-> exc, items |-> items, pc |-> pc, groups |-> groups,
     table_data |-> table_data, page1_tbl |-> page1_tbl, leftover |-> leftover,
     remaining_tbls |-> remaining_tbls, total_pages |-> total_pages,
     page_num |-> page_num, cur_bot_y |-> cur_bot_y, drawn |-> drawn,
     pages |-> pages]

\* the locals of a call before its first statement
StartOf(its, d) ==
    [data |-> d, exc |-> "", items |-> its, pc |-> "start", groups |-> <<>>,
     table_data |-> <<>>, page1_tbl |-> <<>>, leftover |-> <<>>,
     remaining_tbls |-> <<>>, total_pages |-> 0, page_num |-> 0, cur_bot_y |-> 0,
     drawn |-> 0, pages |-> <<>>]

\* a switch that leaves the canvas where it is: one canvas for both calls
SwitchSharingCanvas ==
    /\ other.pc # "none"
    /\ other' = Locals
    /\ data' = other.data
    /\ exc' = other.exc
    /\ items' = other.items
    /\ pc' = other.pc
    /\ groups' = other.groups
    /\ table_data' = other.table_data
    /\ page1_tbl' = other.page1_tbl
    /\ leftover' = other.leftover
    /\ remaining_tbls' = other.remaining_tbls
    /\ total_pages' = other.total_pages
    /\ page_num' = other.page_num
    /\ cur_bot_y' = other.cur_bot_y
    /\ drawn' = other.drawn
    /\ UNCHANGED <<pages, args, ret, session_state, script>>

\* the thread of the other call takes over: every name of generate_invoice
\* is a local (buf, c, items, the tables, the counters), so the running call
\* changes places with the suspended one and nothing else is touched
Switch ==
    /\ other.pc # "none"
    /\ other' = Locals
    /\ data' = other.data
    /\ exc' = other.exc
    /\ items' = other.items
    /\ pc' = other.pc
    /\ groups' = other.groups
    /\ table_data' = other.table_data
    /\ page1_tbl' = other.page1_tbl
    /\ leftover' = other.leftover
    /\ remaining_tbls' = other.remaining_tbls
    /\ total_pages' = other.total_pages
    /\ page_num' = other.page_num
    /\ cur_bot_y' = other.cur_bot_y
    /\ drawn' = other.drawn
    /\ pages' = other.pages
    /\ UNCHANGED <<args, ret, session_state, script>>

\* the item lists and the data of the two calls
PairLists ==
    { <<>>, <<RunItemA>>, <<RunItemA, RunItemB>>, <<TallItem>>,
      <<[RunItemA EXCEPT !.lines = MidLines], [RunItemB EXCEPT !.lines = MidLines]>>,
      <<[RunItemA EXCEPT !.lines = MidLines], [RunItemA EXCEPT !.lines = MidLines],
        [RunItemB EXCEPT !.lines = MidLines]>> }

PairData == { DocData("Spice Garden", ""), AppData("Udupi", "broken.png") }

InitPair ==
    /\ items \in PairLists
    /\ data \in PairData
    /\ InitLocals
    /\ args = [fn |-> "none"]
    /\ ret = [status |-> "none"]
    /\ NoApp
    /\ other \in { StartOf(its, d) : its \in PairLists, d \in PairData }

NextPair ==
    \/ DrawPage1Fixed
    \/ DrawNoItems
    \/ GroupItem
    \/ BuildTable
    \/ SplitPage1
    \/ SplitRest
    \/ DrawPage1Table
    \/ DrawContinuationPage
    \/ DrawTotals
    \/ Switch

SpecPair == InitPair /\ [][NextPair]_vars

\* The call run alone, from its first statement to its last: what it
\* returns (the pages) or raises, as a function of its items and data.

\* the grouping loop over the first n items
RECURSIVE GroupAll(_, _)
GroupAll(its, n) ==
    IF n = 0 THEN <<>>
    ELSE SetDefaultAppend(GroupAll(its, n - 1), GroupKey(its[n]), n)

\* the while True loop: the continuation chunks, ok false if a split is empty
RECURSIVE SplitAll(_)
SplitAll(left) ==
    LET pieces == Split(left, cont_avail)
    IN  IF Len(pieces) = 0 THEN [ok |-> FALSE, tbls |-> <<>>]
        ELSE IF Len(pieces) = 1 THEN [ok |-> TRUE, tbls |-> <<pieces[1]>>]
        ELSE LET rest == SplitAll(pieces[2])
             IN  [ok |-> rest.ok, tbls |-> <<pieces[1]>> \o rest.tbls]

\* for tbl_chunk in remaining_tbls, the first k passes
RECURSIVE DrawRest(_, _, _)
DrawRest(pgs, tbls, k) ==
    IF k = 0 THEN pgs
    ELSE Draw(Draw(Draw(ShowPage(DrawRest(pgs, tbls, k - 1)), ContinuationHeaderOp(data)),
                   TableOp(tbls[k], continuation_top_y - TableHeight(tbls[k]))),
              FooterOp(k + 1, 1))

\* the totals block after the last chunk
DrawLast(pgs, bot_y, pn) ==
    LET new_page == NeedsTotalsPage(bot_y)
        y == IF new_page THEN cont_top ELSE bot_y
        on == IF new_page
              THEN Draw(Draw(ShowPage(pgs), ContinuationHeaderOp(data)), FooterOp(pn, 1))
              ELSE pgs
        words_y == WordsY(y - 6 * MM)
    IN  Draw(Draw(Draw(on, TotalsOp(y - 6 * MM)), WordsOp(words_y)), StampOp(words_y))

RunAlone ==
    LET fixed == << <<HeaderOp(data), [op |-> "meta_box"], [op |-> "billing_info"]>> >>
        grps == GroupAll(items, Len(items))
        tbl == TableData(items, grps)
        chunks == Split(tbl, page1_avail)
        rest == IF Len(chunks) = 2 THEN SplitAll(chunks[2]) ELSE [ok |-> TRUE, tbls |-> <<>>]
        n == Len(rest.tbls)
        doc_y == sep_y - 2 * MM
        page1 == Draw(Draw(fixed, TableOp(chunks[1], doc_y - TableHeight(chunks[1]))),
                      FooterOp(1, 1))
        bot_y == IF n = 0 THEN doc_y - TableHeight(chunks[1])
                 ELSE continuation_top_y - TableHeight(rest.tbls[n])
    IN  IF Len(items) = 0
        THEN [exc |-> "",
              pages |-> Draw(Draw(Draw(fixed, TotalsOp(sep_y - 30 * MM)),
                                  StampOp(WordsY(sep_y - 30 * MM))), FooterOp(1, 1))]
        ELSE IF FirstError(items, grps) # ""
        THEN [exc |-> FirstError(items, grps), pages |-> <<>>]
        ELSE IF Len(chunks) = 0 \/ ~rest.ok
        THEN [exc |-> "IndexError", pages |-> <<>>]
        ELSE [exc |-> "",
              pages |-> DrawLast(DrawRest(page1, rest.tbls, n), bot_y,
                                 IF n = 0 THEN 1 ELSE n + 2)]

\* C18: however two calls are interleaved, a call that has ended has returned
\* the pages, or raised the exception, of the same call run alone.
C18_InterleavedCallsAsAlone ==
    /\ pc = "done" => exc = "" /\ RunAlone.exc = "" /\ pages = RunAlone.pages
    /\ pc = "raised" => exc = RunAlone.exc

\* a call has returned a document of several pages while the other call, of
\* other items and data, is suspended between two of its continuation pages
C18_Witness ==
    /\ pc = "done"
    /\ Len(pages) > 1
    /\ other.pc = "draw_rest"
    /\ Len(other.pages) > 1
    /\ data # other.data
    /\ items # other.items

----------------------------------------------------------------------------
(* The totals block, the amount in words, the stamp; the rows of the table *)

\* C25: in a finished document the totals block and the payment stamp are
\* each drawn exactly once, both on the last page, and after the last table
\* chunk was drawn.
C25_TotalsAndStampOnceOnLastPage ==
    pc = "done" =>
        /\ \A k \in {"totals", "stamp"} :
              /\ Cardinality(OpsOf(Len(pages), k)) = 1
              /\ \A p \in 1..(Len(pages) - 1) : OpsOf(p, k) = {}
        /\ \A p \in TablePages :
              \A t \in OpsOf(p, "table") :
                  \A k \in {"totals", "stamp"} :
                      \A i \in OpsOf(Len(pages), k) : p < Len(pages) \/ t < i

\* a finished document of three pages, the totals on a page of their own
C25_Witness ==
    /\ pc = "done"
    /\ Len(pages) = 3
    /\ OpsOf(3, "table") = {}
    /\ OpsOf(3, "stamp") # {}

\* C26: every finished document, the one for an empty item list included,
\* has the amount-in-words line, drawn next after the totals block on the
\* page of the totals, at the y the totals block ends at.
C26_AmountInWordsOnEveryDocument ==
    pc = "done" =>
        \E p \in 1..Len(pages) :
            \E i \in OpsOf(p, "totals") :
                /\ i < Len(pages[p])
                /\ pages[p][i + 1].op = "words"
                /\ pages[p][i + 1].y = WordsY(pages[p][i].y)

\* the number of items that have the key of item i
ItemsOfKey(i) == Cardinality({ j \in 1..Len(items) : GroupKey(items[j]) = GroupKey(items[i]) })

\* C27: in the table just built every section-header row is followed at once
\* by the data rows of its section, one per item of the section's key, and
\* then by the next section header or the end; the first data row of a
\* section shows the date label and every later one has a blank date column.
C27_SectionRowsAndDateColumn ==
    pc = "split_page1" =>
        /\ Cardinality({ r \in 1..Len(table_data) : table_data[r].kind = "section" })
             = DistinctKeys
        /\ \A h \in 2..Len(table_data) :
              table_data[h].kind = "section" =>
                  /\ h < Len(table_data)
                  /\ table_data[h + 1].kind = "data"
                  /\ LET n == ItemsOfKey(table_data[h + 1].src)
                     IN  /\ h + n <= Len(table_data)
                         /\ \A q \in (h + 1)..(h + n) :
                               /\ table_data[q].kind = "data"
                               /\ GroupKey(items[table_data[q].src])
                                    = GroupKey(items[table_data[h + 1].src])
                               /\ table_data[q].date
                                    = IF q = h + 1 THEN items[table_data[q].src].date ELSE ""
                         /\ h + n < Len(table_data) => table_data[h + n + 1].kind = "section"

\* the table of a section of two or more items after a section of one item
C27_Witness ==
    /\ pc = "split_page1"
    /\ Len(groups) = 2
    /\ Len(groups[1].members) = 1
    /\ Len(groups[2].members) >= 2
    /\ table_data[5].date # ""
    /\ table_data[6].date = ""

\* the zebra counter never reset: the data rows above r in the whole table
data_row_counter_never_reset(tbl, r) ==
    Cardinality({ q \in 2..(r - 1) : tbl[q].kind # "section" })

\* data_row_counter when the loop comes to row r: the data rows above r since
\* the last section-header row, where the counter was set to 0
data_row_counter(tbl, r) ==
    Cardinality({ q \in 2..(r - 1) :
                    \A h \in q..(r - 1) : tbl[h].kind # "section" })

\* the row gets ("BACKGROUND", (0, r), (-1, r), #FAFAF7): a row of the loop
\* (the column header is not one) that is no section header, the counter odd
Tinted(tbl, r) ==
    /\ r >= 2
    /\ tbl[r].kind # "section"
    /\ data_row_counter(tbl, r) % 2 = 1

\* the 0-based position of item i inside its section
PositionInSection(i) ==
    Cardinality({ j \in 1..(i - 1) : GroupKey(items[j]) = GroupKey(items[i]) })

\* C28: in the table just built a data row has the tint exactly when its
\* 0-based position inside its own section is odd; the column header and the
\* section headers never have it.
C28_ZebraRestartsPerSection ==
    pc = "split_page1" =>
        \A r \in 1..Len(table_data) :
            Tinted(table_data, r) <=>
                /\ table_data[r].kind = "data"
                /\ PositionInSection(table_data[r].src) % 2 = 1

\* a tinted second row in a section that follows a section of one row
C28_Witness ==
    /\ pc = "split_page1"
    /\ Len(groups) >= 2
    /\ Len(groups[1].members) = 1
    /\ Len(groups[2].members) >= 2
    /\ Tinted(table_data, 6)
    /\ ~Tinted(table_data, 5)

\* C29: nothing is drawn below the top of the footer bar: the bottom of every
\* table chunk is 20mm (FOOTER_H + MIN_GAP) or more above the page bottom,
\* and the totals block, the amount in words and the lower edge of the stamp
\* are above 16mm, on the last chunk's page, on a page of their own and on
\* the page of an empty item list.
C29_NothingBelowFooterTop ==
    \A o \in AllOps :
        /\ o.op = "table" => o.y >= 20 * MM
        /\ o.op \in {"totals", "words", "stamp"} => o.y > 16 * MM
        /\ o.op = "totals" => o.y - 4 * row_h - 2 * MM > 16 * MM

\* the totals under a last chunk that left just the reserve, and the stamp
\* within 10mm of the reserve's lower end
C29_Witness ==
    /\ pc = "done"
    /\ Len(pages) >= 2
    /\ OpsOf(Len(pages), "table") # {}
    /\ \E o \in AllOps : o.op = "stamp" /\ o.y < 16 * MM + 20 * MM

----------------------------------------------------------------------------
(* utils.py: ai_autofill *)

\* A text of the extraction service is kept as what reading it yields: the
\* value it stands for once the ending `cut` is put back (cut = "" for a
\* complete text), for json.loads sees nothing else of it.  An answer is its
\* text and what re.search(r'\{.*\}') finds in it: the text from the first {
\* to the last }.  Step 1 and step 2 (the search query and the Tavily search)
\* only add to the prompt and swallow their own exceptions (except Exception
\* at lines 265 and 268), so the call's outcome depends on the key and on
\* the final call alone.

\* {} and a JSON object
EmptyDict == [k \in {} |-> ""]
Object(fields) == [type |-> "object", value |-> fields]

\* a JSON array where the object is expected
Array == [type |-> "array", value |-> EmptyDict]

\* the rows of "items" in an answer: a field is a number, a string that is no
\* number, or null
OneRow == [description |-> "Setup", qty |-> Num(1), unit_price |-> Num(250), gst_pct |-> Num(18)]
RowOfDefaults == [description |-> "Refill"]
RowOfWords == [description |-> "Repair", qty |-> NoNumber, unit_price |-> Num(33), gst_pct |-> Num(5)]
RowOfNull == [description |-> "Repair", qty |-> Num(3), unit_price |-> Nothing, gst_pct |-> Num(5)]

NoBusiness == EmptyDict
NameOnly == [name |-> "Acme", address |-> ""]
WholeBusiness ==
    [name |-> "Acme", address |-> "MG Road", phone |-> "98", gstin |-> "29A", reg_no |-> "R1"]

NoStaff == EmptyDict
StaffName == [handled_by |-> "Asha", staff_id |-> ""]
WholeStaff == [handled_by |-> "Asha", staff_id |-> "S7"]

Doc(invoice_date, business, staff, its) ==
    Object([invoice_date |-> invoice_date, business |-> business, staff |-> staff,
            items |-> its])

\* the values an answer stands for
Docs ==
    { Doc("12 Jan 2026", WholeBusiness, WholeStaff, <<OneRow, RowOfDefaults>>),
      Doc("Today", NameOnly, StaffName, <<OneRow>>),
      Doc("soon", NameOnly, NoStaff, <<>>),
      Doc("", NoBusiness, NoStaff, <<RowOfDefaults>>),
      Doc("Today", NameOnly, NoStaff, <<OneRow, RowOfWords>>),
      Doc("Today", NoBusiness, NoStaff, <<RowOfNull>>),
      Object([invoice_date |-> "today"]),
      Array }

\* the endings the repair loop of lines 301-307 tries, in its order
Suffixes == <<"", "}", "]}", "]}", "\"}", "\"}]}">>

TextOf(doc, cut) == [doc |-> doc, cut |-> cut]

\* a text that is one object from its first { to its last }
Braced(text) == [text |-> text, matched |-> TRUE, group |-> text]

\* a text without a } after a {
Unbraced(text) == [text |-> text, matched |-> FALSE, group |-> text]

\* response.choices[0].message.content: whole answers, and answers cut short
\*   {"invoice_date": "12 Jan 2026",
\*   {"items": [{"description": "Set
\*   {"invoice_date": "Today", "business": {"name": "Acme"
\*   {"invoice_date": "Today", "business": {"name": "Acme", "address": ""}, "staff": {}, "items": [{"description": "Set
\* the last of which has the object of the business between its braces
Contents ==
    { Braced(TextOf(d, "")) : d \in Docs \ {Array} }
    \cup { Unbraced(TextOf(Array, "")),
           Unbraced(TextOf(Object([invoice_date |-> "12 Jan 2026"]), "}")),
           Unbraced(TextOf(Object([items |-> <<[description |-> "Set"]>>]), "\"}]}")),
           Unbraced(TextOf(Object([invoice_date |-> "Today", business |-> [name |-> "Acme"]]),
                         "}}")),
           [text |-> TextOf(Doc("Today", NameOnly, NoStaff, <<OneRow>>),
                          "up\", \"qty\": 1, \"unit_price\": 2.5, \"gst_pct\": 18}]}"),
            matched |-> TRUE,
            group |-> TextOf(Object([invoice_date |-> "Today", business |-> NameOnly]), "}")] }

\* client.chat.completions.create of step 3: an answer, or the exception of
\* the client (no connection, a refused key, a timeout)
Services == { [kind |-> "error", content |-> Unbraced(TextOf(Array, ""))] }
            \cup { [kind |-> "content", content |-> c] : c \in Contents }

\* raw after lines 288-294: the match, or the text with its code fences off
Extracted(content) == IF content.matched THEN content.group ELSE content.text

ApiKeys == {"", "gsk-1"}

\* json.loads(raw.rstrip(", ") + suffix) succeeds for the ending that is missing
Loads(raw, suffix) == raw.cut = suffix

\* json.loads(raw), or the first repair that parses; the for-else raises
Parses(raw) == \E i \in 1..Len(Suffixes) : Loads(raw, Suffixes[i])

\* float(row.get(k, default)): no 'or 0' here, None raises TypeError
FloatError(row, k) ==
    LET f == Get(row, k, Num(0))
    IN  IF f.kind = "text" THEN "ValueError"
        ELSE IF f.kind = "none" THEN "TypeError" ELSE ""

\* the exception of normalising one row: qty, then unit_price, then gst_pct
NormaliseError(row) ==
    IF FloatError(row, "qty") # "" THEN FloatError(row, "qty")
    ELSE IF FloatError(row, "unit_price") # "" THEN FloatError(row, "unit_price")
    ELSE FloatError(row, "gst_pct")

\* one entry of normalised_items
Normalised(row) ==
    LET qty == Get(row, "qty", Num(1)).v
        unit_price == Get(row, "unit_price", Num(0)).v
        gst_pct == Get(row, "gst_pct", Num(5)).v
    IN  [description |-> Get(row, "description", ""),
         qty |-> qty, unit_price |-> unit_price, gst_pct |-> gst_pct,
         amount |-> compute_item_amount(qty, unit_price, gst_pct)]

\* the exception of the loop over items_raw: that of its first failing row
RECURSIVE FirstNormaliseError(_)
FirstNormaliseError(rows) ==
    IF Len(rows) = 0 THEN ""
    ELSE IF NormaliseError(Head(rows)) # "" THEN NormaliseError(Head(rows))
    ELSE FirstNormaliseError(Tail(rows))

Raised(e) == [status |-> "raised", exc |-> e]

\* ai_autofill(prompt, api_key, tavily_api_key, base_url)
ai_autofill(api_key, service) ==
    IF api_key = "" THEN Raised("RuntimeError")
    ELSE IF service.kind = "error" THEN Raised("APIConnectionError")
    ELSE IF ~Parses(Extracted(service.content)) THEN Raised("RuntimeError")
    ELSE LET parsed_data == Extracted(service.content).doc
         IN  IF parsed_data.type # "object" THEN Raised("AttributeError")
             ELSE LET items_raw == Get(parsed_data.value, "items", <<>>)
                      business_raw == Get(parsed_data.value, "business", EmptyDict)
                      staff_raw == Get(parsed_data.value, "staff", EmptyDict)
                  IN  IF FirstNormaliseError(items_raw) # ""
                      THEN Raised(FirstNormaliseError(items_raw))
                      ELSE [status |-> "returned",
                            invoice_date |-> Get(parsed_data.value, "invoice_date", "Today"),
                            business |-> business_raw,
                            staff |-> staff_raw,
                            items |-> [i \in 1..Len(items_raw) |-> Normalised(items_raw[i])]]

----------------------------------------------------------------------------
(* app.py: the items table, its buttons and the autofill handler *)

\* Streamlit runs the script from its first line on every interaction; a run
\* ends at the last line, at st.rerun(), or at an exception nothing catches.
\* A row of items_df is kept by the columns calculated with (and its
\* description); qty is a whole number, unit_price and amount are in paise,
\* gst_pct in percent.  Rows added in the editor start with empty cells,
\* whose reading is pandas's: the editor of the model changes cells of the
\* rows there are and deletes rows.

\* the rows, counted from the top, whose cells are edited
MaxEditedRows == 1

SampleRow(description, qty, unit_price, gst_pct) ==
    [description |-> description, qty |-> qty, unit_price |-> unit_price, gst_pct |-> gst_pct,
     amount |-> compute_item_amount(qty, unit_price, gst_pct)]

\* _default_items()
default_items ==
    << SampleRow("Consulting Services (Hours)", 5, 150000, 18),
       SampleRow("Software License (Annual)", 1, 1200000, 18),
       SampleRow("Hardware Setup & Installation", 1, 500000, 18),
       SampleRow("Network Router (AC3200)", 2, 350000, 18),
       SampleRow("Monthly Maintenance Subscription", 1, 250000, 18) >>

\* the one row of Clear All
blank_items ==
    << [description |-> "", qty |-> 1, unit_price |-> 0, gst_pct |-> 5, amount |-> 0] >>

\* the amount column as the editor hands it back
keep_amounts(df) == df

\* _refresh_amounts(df): the amount of every row computed anew
refresh_amounts(df) ==
    [i \in 1..Len(df) |->
        [df[i] EXCEPT !.amount = compute_item_amount(df[i].qty, df[i].unit_price, df[i].gst_pct)]]

\* _items_to_dicts(df)
items_to_dicts(df) == df

Min(a, b) == IF a < b THEN a ELSE b

\* what the user types into a cell of qty, of unit_price and of gst_pct
TypedQtys == {3}
TypedPrices == {250}
TypedGsts == {5}

\* st.data_editor after one edit of the user: a cell of qty, unit_price or
\* gst_pct changed (the amount column is disabled), or the last row deleted
Edited(df) ==
    { [df EXCEPT ![i].qty = q] : i \in 1..Min(Len(df), MaxEditedRows), q \in TypedQtys }
    \cup { [df EXCEPT ![i].unit_price = u] :
             i \in 1..Min(Len(df), MaxEditedRows), u \in TypedPrices }
    \cup { [df EXCEPT ![i].gst_pct = g] : i \in 1..Min(Len(df), MaxEditedRows), g \in TypedGsts }
    \cup { SubSeq(df, 1, Len(df) - 1) : n \in { Len(df) } \ {0, 1} }

\* datetime.date.today()
Today == "3 Nov 2026"

\* dateparser.parse(text).date(), "" for the None of a text that is no date
dateparser_parse(text) == IF text = "12 Jan 2026" THEN "12 Jan 2026" ELSE ""

\* str(text).lower()
Lower(text) == IF text = "Today" THEN "today" ELSE text

\* if d.get(k): st.session_state.<field> = d[k], overwriting with whatever
\* the payload holds
Overwritten(d, k, old) == Get(d, k, "")

\* if d.get(k): st.session_state.<field> = d[k]
Merged(d, k, old) == IF Get(d, k, "") # "" THEN d[k] ELSE old

\* the session state after lines 347-376 of the handler
AfterAutofill(ss, ai_result) ==
    LET ai_items == ai_result.items
        bus_info == ai_result.business
        staff_info == ai_result.staff
        extracted_date == ai_result.invoice_date
        parsed == dateparser_parse(extracted_date)
    IN  [items_df |-> IF ai_items # <<>> THEN ai_items ELSE ss.items_df,
         business_name |-> Merged(bus_info, "name", ss.business_name),
         business_address |-> Merged(bus_info, "address", ss.business_address),
         business_phone |-> Merged(bus_info, "phone", ss.business_phone),
         business_gstin |-> Merged(bus_info, "gstin", ss.business_gstin),
         business_reg_no |-> Merged(bus_info, "reg_no", ss.business_reg_no),
         handled_by |-> Merged(staff_info, "handled_by", ss.handled_by),
         staff_id |-> Merged(staff_info, "staff_id", ss.staff_id),
         invoice_date |-> IF extracted_date # "" /\ Lower(extracted_date) # "today"
                             /\ parsed # ""
                          THEN parsed ELSE ss.invoice_date,
         ai_message |-> "items added"]

\* the script from line 381 to its end: the message shown and cleared, the
\* editor, the amounts refreshed and stored, items_list handed to
\* calculate_totals and, when Generate Invoice was clicked, to generate_invoice
RunToEnd(ss, edited_df, generate) ==
    /\ session_state' = [ss EXCEPT !.items_df = refresh_amounts(edited_df), !.ai_message = ""]
    /\ script' = [at |-> "end", uncaught |-> "", generate |-> generate,
                  items_list |-> items_to_dicts(refresh_amounts(edited_df))]

\* the script stopped before line 516: no items_list in this run
Stopped(at, uncaught) ==
    [at |-> at, uncaught |-> uncaught, generate |-> FALSE, items_list |-> <<>>]

NoCall ==
    /\ args' = [fn |-> "none"]
    /\ ret' = [status |-> "none"]

\* the page is shown and takes the user's next interaction
Shown == script.at \in {"end", "exception"}

\* the first run of a session: the defaults of lines 188-221 and 403-404
InitApp ==
    /\ session_state =
         [items_df |-> refresh_amounts(default_items),
          business_name |-> "", business_address |-> "", business_phone |-> "",
          business_gstin |-> "", business_reg_no |-> "", handled_by |-> "", staff_id |-> "",
          invoice_date |-> Today, ai_message |-> ""]
    /\ script = [at |-> "end", uncaught |-> "", generate |-> FALSE,
                 items_list |-> items_to_dicts(refresh_amounts(default_items))]
    /\ args = [fn |-> "none"]
    /\ ret = [status |-> "none"]
    /\ NoInvoice

\* a run after an edit in the items table
EditRows ==
    /\ Shown
    /\ \E edited_df \in Edited(session_state.items_df) :
           RunToEnd(session_state, edited_df, FALSE)
    /\ NoCall
    /\ UNCHANGED invoiceVars

\* Reset to Sample
ResetToSample ==
    /\ Shown
    /\ session_state' = [session_state EXCEPT !.items_df = default_items, !.ai_message = ""]
    /\ script' = Stopped("rerun", "")
    /\ NoCall
    /\ UNCHANGED invoiceVars

\* Clear All
ClearAll ==
    /\ Shown
    /\ session_state' = [session_state EXCEPT !.items_df = blank_items, !.ai_message = ""]
    /\ script' = Stopped("rerun", "")
    /\ NoCall
    /\ UNCHANGED invoiceVars

\* Autofill Items from AI without an order description: the warning
AutofillWithoutPrompt ==
    /\ Shown
    /\ RunToEnd(session_state, session_state.items_df, FALSE)
    /\ NoCall
    /\ UNCHANGED invoiceVars

\* Autofill Items from AI: the call, and then the update and st.rerun(), or
\* st.error and the rest of the script for a RuntimeError, or the end of the
\* run for any other exception
Autofill ==
    /\ Shown
    /\ \E api_key \in ApiKeys, service \in Services :
           LET ai_result == ai_autofill(api_key, service)
           IN  /\ args' = [fn |-> "ai_autofill", api_key |-> api_key, service |-> service]
               /\ ret' = ai_result
               /\ IF ai_result.status = "returned"
                  THEN /\ session_state' = AfterAutofill(session_state, ai_result)
                       /\ script' = Stopped("rerun", "")
                  ELSE IF ai_result.exc = "RuntimeError"
                  THEN RunToEnd(session_state, session_state.items_df, FALSE)
                  ELSE /\ session_state' = session_state
                       /\ script' = Stopped("exception", ai_result.exc)
    /\ UNCHANGED invoiceVars

\* the run st.rerun() starts: no interaction
Rerun ==
    /\ script.at = "rerun"
    /\ RunToEnd(session_state, session_state.items_df, FALSE)
    /\ NoCall
    /\ UNCHANGED invoiceVars

\* Generate Invoice
GenerateInvoice ==
    /\ Shown
    /\ RunToEnd(session_state, session_state.items_df, TRUE)
    /\ NoCall
    /\ UNCHANGED invoiceVars

NextApp ==
    \/ EditRows
    \/ ResetToSample
    \/ ClearAll
    \/ AutofillWithoutPrompt
    \/ Autofill
    \/ Rerun
    \/ GenerateInvoice

SpecApp == InitApp /\ [][NextApp]_vars

----------------------------------------------------------------------------
(* The amounts of the rows, the failures of ai_autofill, the handler's frame *)

\* C21: in every run of the script that reaches calculate_totals (and
\* generate_invoice, when Generate Invoice was clicked), every row of
\* items_list carries the amount of its own qty, unit_price and gst_pct,
\* round(qty * unit_price * (1 + gst_pct / 100), 2), whatever edits, autofills,
\* resets and clears came before.
C21_AmountsOfCurrentFields ==
    script.at = "end" =>
        \A i \in 1..Len(script.items_list) :
            LET row == script.items_list[i]
            IN  row.amount = compute_item_amount(row.qty, row.unit_price, row.gst_pct)

\* a row from the AI whose quantity was then edited, handed to generate_invoice
C21_Witness ==
    /\ script.at = "end"
    /\ script.generate
    /\ Len(script.items_list) = 2
    /\ script.items_list[1].description = "Setup"
    /\ script.items_list[1].qty = 3
    /\ script.items_list[1].amount = 885

\* C22: every failure of ai_autofill is a RuntimeError, the exception the
\* handler of app.py catches: the empty key, the failed final call, the answer
\* that is no JSON, the item field that is no number.
C22_FailuresAreRuntimeErrors ==
    (args.fn = "ai_autofill" /\ ret.status = "raised") => ret.exc = "RuntimeError"

\* the answer is the whole text of an object with business, staff and items
Expected(content) ==
    /\ content.text.cut = ""
    /\ content.text.doc.type = "object"
    /\ {"business", "staff", "items"} \subseteq DOMAIN content.text.doc.value

\* C23: when the answer of the extraction service is malformed or cut short
\* (it is not the text of an object with business, staff and items),
\* ai_autofill raises: it never returns empty items, business and staff made
\* from such an answer.
C23_MalformedAnswerRaises ==
    (/\ args.fn = "ai_autofill"
     /\ args.api_key # ""
     /\ args.service.kind = "content"
     /\ ~Expected(args.service.content))
    => ret.status = "raised"

\* the session state the claim is about
MergedFields ==
    {"items_df", "business_name", "business_address", "business_phone", "business_gstin",
     "business_reg_no", "handled_by", "staff_id", "invoice_date"}

\* what the payload holds for a field of the session state, "" or <<>> for
\* a field it does not carry
Payload(ai_result, f) ==
    CASE f = "items_df" -> ai_result.items
      [] f = "business_name" -> Get(ai_result.business, "name", "")
      [] f = "business_address" -> Get(ai_result.business, "address", "")
      [] f = "business_phone" -> Get(ai_result.business, "phone", "")
      [] f = "business_gstin" -> Get(ai_result.business, "gstin", "")
      [] f = "business_reg_no" -> Get(ai_result.business, "reg_no", "")
      [] f = "handled_by" -> Get(ai_result.staff, "handled_by", "")
      [] f = "staff_id" -> Get(ai_result.staff, "staff_id", "")
      [] f = "invoice_date" ->
            IF ai_result.invoice_date \in {"Today", "today"} THEN ""
            ELSE dateparser_parse(ai_result.invoice_date)

Carries(ai_result, f) ==
    IF f = "items_df" THEN Payload(ai_result, f) # <<>> ELSE Payload(ai_result, f) # ""

\* C24: a click on Autofill whose call of ai_autofill fails leaves the items,
\* the business and staff fields and the invoice date of the session state as
\* they were; one whose call succeeds sets the fields the payload carries (a
\* non-empty items list, non-empty business and staff fields, a date that
\* parses and is not 'Today') to the payload's values and leaves the others.
C24_AutofillMergesWhatIsCarried ==
    [][args'.fn = "ai_autofill" =>
          \A f \in MergedFields :
              session_state'[f] =
                  IF ret'.status = "returned" /\ Carries(ret', f)
                  THEN Payload(ret', f)
                  ELSE session_state[f]]_vars

\* a payload with a name and no address, after one that brought an address:
\* the name is set, the address and the date stay
C24_Witness ==
    /\ args.fn = "ai_autofill"
    /\ ret.status = "returned"
    /\ ret.business = NameOnly
    /\ ret.invoice_date = "soon"
    /\ script.at = "rerun"
    /\ session_state.business_name = "Acme"
    /\ session_state.business_address = "MG Road"
    /\ session_state.invoice_date = "12 Jan 2026"
    /\ session_state.items_df[1].qty = 3

====
